---- MODULE Spec2Model ----
(***************************************************************************)
(* Model of the twitch_service bridge:                                     *)
(*   director_bridge.py  the Socket.IO client to the Director Engine: the  *)
(*                       supervised connection loop and the emit path;     *)
(*   twitch_client.py    the Twitch chat client: the self-message filter,  *)
(*                       the outbound queue and its sender loop;           *)
(*   main.py             the two transforms and the lifespan sequencing.   *)
(* Strings whose content matters (names, chat texts, replies) are          *)
(* sequences of one-character strings.                                     *)
(***************************************************************************)
EXTENDS Integers, Sequences, FiniteSets, TLC

VARIABLES
    \* ---- director_bridge.py ----
    d_is_running,   \* director_bridge._is_running
    dpc,            \* position of the DirectorBridge thread in _run_connector
    failures,       \* local `failures` of _run_connector
    wait,           \* local `wait` of _run_connector (0 before the first failure)
    left,           \* iterations the backoff for-loop has still to run
    connected,      \* sio.connected
    inst,           \* number of connections established so far (the live instance)
    reconnecting,   \* the transport's own reconnection is trying (reconnection=True)
    lpc,            \* position of main.lifespan: "auth", "dstart", "cstart", "serving",
                    \* "dstop", "stopped"; of a caller that stops the connectors
                    \* once more: "dstop2", "stopped2"; "failed": a call raised
    \* ---- history of the connection loop (not program state) ----
    nConsec,        \* recognized failures of sio.connect since its last success
    connSince,      \* the channel has been connected since the last recognized failure
    failAfterConn,  \* connSince, as it was when the last recognized failure happened
    \* ---- inbound chat path: twitch_client._on_message -> main._handle_twitch_message ----
    hpc,            \* 0: no handler running; i > 0: the handler is about to make its i-th emit
    htext,          \* the handler's local `text` (<<>> when no handler is running)
    arrived,        \* the author names of the chat messages received so far; the index is the id
    cbCount,        \* per message: how often _on_message_cb was invoked for it
    emitlog,        \* every _safe_emit call so far: [ev, id, conn, out]
    wire,           \* every frame sio.emit wrote to the Director: [ev, id, inst, src]
    \* ---- twitch_client.py ----
    auth_tokens,    \* _auth_tokens is set
    c_is_running,   \* twitch_client._is_running
    event_loop,     \* _event_loop is set
    has_queue,      \* _message_queue is set
    queue,          \* the items of _message_queue, oldest first (ids of send_message calls)
    ready,          \* the puts run_coroutine_threadsafe scheduled on the loop, not yet run
    chat,           \* _chat: "none", "up" (Chat started) or "stopped" (_chat.stop() called)
    cpc,            \* position of the TwitchClient thread
    sending,        \* the message the sender loop took from the queue (0: none)
    provider,       \* every call of _chat.send_message so far: [id, ok]
    calls,          \* every call of send_message so far: [text, by, accepted, at]
                    \* (at: where the TwitchClient thread was, see Phase)
    \* ---- main._handle_bot_reply ----
    inbox,          \* bot_reply payloads received from the Director, not yet handled
    handled         \* per handled bot_reply: [data, from, to], its send_message calls

connVars == <<d_is_running, dpc, failures, wait, left, connected, inst,
              reconnecting, lpc, nConsec, connSince, failAfterConn>>

msgVars == <<hpc, htext, arrived, cbCount, emitlog, wire>>

chatVars == <<auth_tokens, c_is_running, event_loop, has_queue, queue, ready,
              chat, cpc, sending, provider, calls>>

replyVars == <<inbox, handled>>

vars == <<connVars, msgVars, chatVars, replyVars>>

\* what the connection loop, start(), stop() and the transport leave alone
notConn == <<msgVars, chatVars, replyVars>>

\* ---- bounds of the model ----
MaxFailures == 7     \* recognized connection failures in a row
MaxConn     == 2     \* connections established in one run
MaxMsgs     == 1     \* inbound chat messages in one run
MaxSends    == 3     \* send_message calls in one run
MaxReplyLen == 3     \* characters of a bot_reply text
MaxCleanLen == 6     \* characters of a text given to the cleanup alone

\* ---- constants of _run_connector ----
BackoffStep  == 5    \* min(5 * failures, 30)
BackoffCap   == 30
PollsPerSec  == 2    \* range(wait * 2), sleep(0.5)

\* ---- the sleeps of _run_connector, in milliseconds ----
IdleSleepMs    == 1000   \* line 71   time.sleep(1)
HoldSleepMs    == 1000   \* line 79   time.sleep(1)
BackoffSleepMs == 500    \* line 87   time.sleep(0.5)
ErrSleepMs     == 5000   \* line 90   time.sleep(5)

\* The time the DirectorBridge thread sleeps at position pc before it goes on
\* to its next test of _is_running (lines 69, 78, 85); 0 where it does not sleep.
SleepMs(pc) ==
    CASE pc = "idle"      -> IdleSleepMs
      [] pc = "holdsleep" -> HoldSleepMs
      [] pc = "backoff"   -> BackoffSleepMs
      [] pc = "errsleep"  -> ErrSleepMs
      [] OTHER            -> 0

Min(a, b) == IF a < b THEN a ELSE b

\* line 82 without the cap
BackoffUncapped(f) == BackoffStep * f

\* director_bridge.py:82  wait = min(5 * failures, 30)
Backoff(f) == Min(BackoffStep * f, BackoffCap)

\* director_bridge.py:77  failures = 0 after sio.connect returned
FailuresAfterConnect(f) == 0

\* director_bridge.py:81  failures += 1
FailuresAfterError(f) == f + 1

InitConn ==
    /\ d_is_running = FALSE
    /\ dpc = "none"
    /\ failures = 0
    /\ wait = 0
    /\ left = 0
    /\ connected = FALSE
    /\ inst = 0
    /\ reconnecting = FALSE
    /\ lpc = "auth"
    /\ nConsec = 0
    /\ connSince = FALSE
    /\ failAfterConn = FALSE

\* director_bridge.start(): spawn the DirectorBridge thread (main.py:54)
DirectorStart ==
    /\ lpc = "dstart"
    /\ lpc' = "cstart"
    /\ dpc' = "entry"
    /\ UNCHANGED <<d_is_running, failures, wait, left, connected, inst,
                   reconnecting, nConsec, connSince, failAfterConn>>
    /\ UNCHANGED notConn

\* director_bridge.stop() (lines 111-115) called by a caller that is at `from`
\* and goes on to `to`: clear the flag, disconnect if connected
DirectorStopAt(from, to) ==
    /\ lpc = from
    /\ lpc' = to
    /\ d_is_running' = FALSE
    /\ IF connected
         THEN connected' = FALSE /\ reconnecting' = FALSE
         ELSE UNCHANGED <<connected, reconnecting>>
    /\ UNCHANGED <<dpc, failures, wait, left, inst, nConsec, connSince, failAfterConn>>
    /\ UNCHANGED notConn

\* main.py:64  director_bridge.stop()
DirectorStop == DirectorStopAt("dstop", "stopped")

\* director_bridge.stop() called once more after twitch_client.stop() was
DirectorStopAgain == DirectorStopAt("dstop2", "stopped2")

\* _run_connector, lines 65-67
RunEntry ==
    /\ dpc = "entry"
    /\ d_is_running' = TRUE
    /\ failures' = 0
    /\ dpc' = "top"
    /\ UNCHANGED <<wait, left, connected, inst, reconnecting, lpc,
                   nConsec, connSince, failAfterConn>>
    /\ UNCHANGED notConn

\* lines 69-72: the while test, then the already-connected branch
LoopTop ==
    /\ dpc = "top"
    /\ dpc' = IF ~d_is_running THEN "done"
              ELSE IF connected THEN "idle" ELSE "connect"
    /\ UNCHANGED <<d_is_running, failures, wait, left, connected, inst,
                   reconnecting, lpc, nConsec, connSince, failAfterConn>>
    /\ UNCHANGED notConn

\* line 71-72: time.sleep(1); continue
IdleWake ==
    /\ dpc = "idle"
    /\ dpc' = "top"
    /\ UNCHANGED <<d_is_running, failures, wait, left, connected, inst,
                   reconnecting, lpc, nConsec, connSince, failAfterConn>>
    /\ UNCHANGED notConn

\* line 76: sio.connect(...) is called and is in flight (wait_timeout=10)
ConnectCall ==
    /\ dpc = "connect"
    /\ dpc' = "connecting"
    /\ UNCHANGED <<d_is_running, failures, wait, left, connected, inst,
                   reconnecting, lpc, nConsec, connSince, failAfterConn>>
    /\ UNCHANGED notConn

\* lines 76-77: sio.connect returned; the connection is up
ConnectOk ==
    /\ dpc = "connecting"
    /\ ~connected
    /\ inst < MaxConn
    /\ connected' = TRUE
    /\ inst' = inst + 1
    /\ reconnecting' = FALSE
    /\ failures' = FailuresAfterConnect(failures)
    /\ nConsec' = 0
    /\ connSince' = TRUE
    /\ dpc' = "hold"
    /\ UNCHANGED <<d_is_running, wait, left, lpc, failAfterConn>>
    /\ UNCHANGED notConn

\* lines 80-84: sio.connect raised socketio.exceptions.ConnectionError
ConnectFail ==
    /\ dpc = "connecting"
    /\ failures < MaxFailures
    /\ failures' = FailuresAfterError(failures)
    /\ wait' = Backoff(failures')
    /\ left' = wait' * PollsPerSec
    /\ nConsec' = nConsec + 1
    /\ failAfterConn' = connSince
    /\ connSince' = connected
    /\ dpc' = "backoff"
    /\ UNCHANGED <<d_is_running, connected, inst, reconnecting, lpc>>
    /\ UNCHANGED notConn

\* the handler of lines 88-90 counting the exception as a failure
ConnectErrCounted ==
    /\ dpc = "connecting"
    /\ failures < MaxFailures
    /\ failures' = FailuresAfterError(failures)
    /\ dpc' = "errsleep"
    /\ UNCHANGED <<d_is_running, wait, left, connected, inst,
                   reconnecting, lpc, nConsec, connSince, failAfterConn>>
    /\ UNCHANGED notConn

\* lines 88-90: any other exception; the 5 s sleep follows
ConnectErr ==
    /\ dpc = "connecting"
    /\ dpc' = "errsleep"
    /\ UNCHANGED <<d_is_running, failures, wait, left, connected, inst,
                   reconnecting, lpc, nConsec, connSince, failAfterConn>>
    /\ UNCHANGED notConn

\* line 78: while _is_running and sio.connected
Hold ==
    /\ dpc = "hold"
    /\ dpc' = IF d_is_running /\ connected THEN "holdsleep" ELSE "top"
    /\ UNCHANGED <<d_is_running, failures, wait, left, connected, inst,
                   reconnecting, lpc, nConsec, connSince, failAfterConn>>
    /\ UNCHANGED notConn

\* line 79: time.sleep(1)
HoldWake ==
    /\ dpc = "holdsleep"
    /\ dpc' = "hold"
    /\ UNCHANGED <<d_is_running, failures, wait, left, connected, inst,
                   reconnecting, lpc, nConsec, connSince, failAfterConn>>
    /\ UNCHANGED notConn

\* lines 84-87: one iteration of the backoff for-loop (or its end)
BackoffIter ==
    /\ dpc = "backoff"
    /\ IF left = 0
         THEN dpc' = "top" /\ left' = left
         ELSE IF ~d_is_running
                THEN dpc' = "done" /\ left' = left
                ELSE dpc' = "backoff" /\ left' = left - 1
    /\ UNCHANGED <<d_is_running, failures, wait, connected, inst,
                   reconnecting, lpc, nConsec, connSince, failAfterConn>>
    /\ UNCHANGED notConn

\* line 90: time.sleep(5) is over
ErrSleepWake ==
    /\ dpc = "errsleep"
    /\ dpc' = "top"
    /\ UNCHANGED <<d_is_running, failures, wait, left, connected, inst,
                   reconnecting, lpc, nConsec, connSince, failAfterConn>>
    /\ UNCHANGED notConn

\* The Director (or the network) drops an established connection; the client
\* was built with reconnection=True (lines 17-24), so the transport starts
\* reconnecting on its own.
ServerDrop ==
    /\ connected
    /\ connected' = FALSE
    /\ reconnecting' = TRUE
    /\ UNCHANGED <<d_is_running, dpc, failures, wait, left, inst, lpc,
                   nConsec, connSince, failAfterConn>>
    /\ UNCHANGED notConn

\* The transport's own reconnection succeeds (lines 17-24, reconnection=True).
TransportReconnect ==
    /\ reconnecting
    /\ ~connected
    /\ inst < MaxConn
    /\ connected' = TRUE
    /\ inst' = inst + 1
    /\ reconnecting' = FALSE
    /\ connSince' = TRUE
    /\ UNCHANGED <<d_is_running, dpc, failures, wait, left, lpc, nConsec, failAfterConn>>
    /\ UNCHANGED notConn

(***************************************************************************)
(* Inbound chat path: twitch_client._on_message,                           *)
(* main._handle_twitch_message and director_bridge._safe_emit.             *)
(***************************************************************************)

\* str.lower() on the characters the model uses
LowerChar(c) ==
    CASE c = "N" -> "n"
      [] c = "A" -> "a"
      [] c = "M" -> "m"
      [] c = "I" -> "i"
      [] OTHER -> c

Lower(str) == [i \in 1..Len(str) |-> LowerChar(str[i])]

\* config.BOT_NAME: the configured bot identity, here a mixed-case name
BOT_NAME == <<"N", "a">>

\* the author names and texts a chat message is drawn from
Authors == { <<"N", "a">>, <<"n", "A">>, <<"b", "o">> }
Texts   == { <<"h", "i">>, <<"N", "A", "m", "i">> }

\* twitch_client.py:65  msg.user.name.lower() == BOT_NAME.lower(), case-sensitive variant
IsSelfCaseSensitive(author) == author = BOT_NAME

\* twitch_client.py:65  msg.user.name.lower() == BOT_NAME.lower()
IsSelf(author) == Lower(author) = Lower(BOT_NAME)

\* re.search of a literal: str contains pat
Contains(str, pat) ==
    \E i \in 1..(Len(str) - Len(pat) + 1) : SubSeq(str, i, i + Len(pat) - 1) = pat

\* main.py:16,39  _MENTION_RE = (nami|peepingnami), IGNORECASE; bool(search(text))
IsMention(text) ==
    \/ Contains(Lower(text), <<"n", "a", "m", "i">>)
    \/ Contains(Lower(text), <<"p", "e", "e", "p", "i", "n", "g", "n", "a", "m", "i">>)

\* director_bridge.py:128  source_str of the scored event
SourceStr(text) == IF IsMention(text) THEN "TWITCH_MENTION" ELSE "TWITCH_CHAT"

\* main.py:40-41 without the second call
HandlerOrderRawOnly == <<"twitch_message">>

\* main.py:40-41 with the two calls exchanged
HandlerOrderSwapped == <<"event", "twitch_message">>

\* main.py:40-41  emit_twitch_message(...), then emit_scored_event(...)
HandlerOrder == <<"twitch_message", "event">>

\* _safe_emit that writes whether or not the channel is connected
SafeEmitOutcomeNoCheck(conn, raises) == IF raises THEN "error" ELSE "sent"

\* director_bridge.py:140-147  what one _safe_emit call does: "sent" (sio.emit
\* returned), "dropped" (not connected, the warning) or "error" (sio.emit
\* raised, caught at line 146)
SafeEmitOutcome(conn, raises) ==
    IF conn THEN (IF raises THEN "error" ELSE "sent") ELSE "dropped"

InitMsg ==
    /\ hpc = 0
    /\ htext = <<>>
    /\ arrived = <<>>
    /\ cbCount = <<>>
    /\ emitlog = <<>>
    /\ wire = <<>>

\* twitch_client._on_message (lines 64-68) for a message of the running chat
\* session, up to the entry of the callback main.py:52 registered (lines
\* 36-39). The event loop of the session runs one handler at a time.
OnMessage(author, text) ==
    /\ chat = "up"
    /\ hpc = 0
    /\ Len(arrived) < MaxMsgs
    /\ arrived' = Append(arrived, author)
    /\ IF IsSelf(author)
         THEN cbCount' = Append(cbCount, 0) /\ hpc' = 0 /\ htext' = <<>>
         ELSE cbCount' = Append(cbCount, 1) /\ hpc' = 1 /\ htext' = text
    /\ UNCHANGED <<emitlog, wire>>
    /\ UNCHANGED <<connVars, chatVars, replyVars>>

\* main.py:40 / 41: the handler's next emit, through _safe_emit (lines 140-147).
\* raises: sio.emit raised.
HandlerEmit(raises) ==
    /\ hpc > 0
    /\ LET id  == Len(arrived)
           ev  == HandlerOrder[hpc]
           out == SafeEmitOutcome(connected, raises)
           src == IF ev = "event" THEN SourceStr(htext) ELSE "-"
       IN /\ emitlog' = Append(emitlog, [ev |-> ev, id |-> id, conn |-> connected, out |-> out])
          /\ wire' = IF out = "sent"
                       THEN Append(wire, [ev |-> ev, id |-> id, inst |-> inst, src |-> src])
                       ELSE wire
    /\ IF hpc < Len(HandlerOrder)
         THEN hpc' = hpc + 1 /\ htext' = htext
         ELSE hpc' = 0 /\ htext' = <<>>
    /\ UNCHANGED <<arrived, cbCount>>
    /\ UNCHANGED <<connVars, chatVars, replyVars>>

(***************************************************************************)
(* main.lifespan (the chat side) and twitch_client.py                      *)
(***************************************************************************)

InitChat ==
    /\ auth_tokens = FALSE
    /\ c_is_running = FALSE
    /\ event_loop = FALSE
    /\ has_queue = FALSE
    /\ queue = <<>>
    /\ ready = <<>>
    /\ chat = "none"
    /\ cpc = "none"
    /\ sending = 0
    /\ provider = <<>>
    /\ calls = <<>>

\* main.py:47-52  ok = await twitch_client.authenticate(); the two callbacks
\* are registered. twitch_client.py:29-47: the tokens are stored on success.
Authenticate(ok) ==
    /\ lpc = "auth"
    /\ lpc' = "dstart"
    /\ auth_tokens' = ok
    /\ UNCHANGED <<c_is_running, event_loop, has_queue, queue, ready, chat, cpc,
                   sending, provider, calls>>
    /\ UNCHANGED <<d_is_running, dpc, failures, wait, left, connected, inst,
                   reconnecting, nConsec, connSince, failAfterConn>>
    /\ UNCHANGED <<msgVars, replyVars>>

\* twitch_client.start() (lines 121-128) called whatever authenticate()
\* returned: _is_running = True, the thread is spawned, the thread object is
\* returned to the caller, which goes on. No line of start() reads _auth_tokens.
StartCall ==
    /\ lpc = "cstart"
    /\ lpc' = "serving"
    /\ c_is_running' = TRUE
    /\ cpc' = "target"
    /\ UNCHANGED <<auth_tokens, event_loop, has_queue, queue, ready, chat,
                   sending, provider, calls>>
    /\ UNCHANGED <<d_is_running, dpc, failures, wait, left, connected, inst,
                   reconnecting, nConsec, connSince, failAfterConn>>
    /\ UNCHANGED <<msgVars, replyVars>>

\* the lifespan without the test of line 57
TwitchStartAlways == StartCall

\* main.py:57-58  if ok: twitch_client.start()  (twitch_client.py:121-128)
TwitchStart ==
    /\ lpc = "cstart"
    /\ lpc' = "serving"
    /\ IF auth_tokens
         THEN c_is_running' = TRUE /\ cpc' = "target"
         ELSE UNCHANGED <<c_is_running, cpc>>
    /\ UNCHANGED <<auth_tokens, event_loop, has_queue, queue, ready, chat,
                   sending, provider, calls>>
    /\ UNCHANGED <<d_is_running, dpc, failures, wait, left, connected, inst,
                   reconnecting, nConsec, connSince, failAfterConn>>
    /\ UNCHANGED <<msgVars, replyVars>>

\* twitch_client.stop() (lines 139-144) called by a caller that is at `from`
\* and goes on to `to` when the call returns. Line 142 calls _chat.stop()
\* whenever _chat is set, and _chat is never reset: on a session that was
\* stopped before, Chat.stop() raises RuntimeError('not running'), which
\* leaves stop() at line 143 and reaches the caller ("failed").
TwitchStopAt(from, to) ==
    /\ lpc = from
    /\ lpc' = IF chat = "stopped" THEN "failed" ELSE to
    /\ c_is_running' = FALSE
    /\ chat' = IF chat = "up" THEN "stopped" ELSE chat
    /\ UNCHANGED <<auth_tokens, event_loop, has_queue, queue, ready, cpc,
                   sending, provider, calls>>
    /\ UNCHANGED <<d_is_running, dpc, failures, wait, left, connected, inst,
                   reconnecting, nConsec, connSince, failAfterConn>>
    /\ UNCHANGED <<msgVars, replyVars>>

\* main.py:63  twitch_client.stop()  (twitch_client.py:139-144)
TwitchStop == TwitchStopAt("serving", "dstop")

\* twitch_client.stop() called once more after the shutdown sequence
TwitchStopAgain == TwitchStopAt("stopped", "dstop2")

\* _thread_target, lines 110-114: the loop is created, stored and run
ThreadTarget ==
    /\ cpc = "target"
    /\ event_loop' = TRUE
    /\ cpc' = "run"
    /\ UNCHANGED <<auth_tokens, c_is_running, has_queue, queue, ready, chat,
                   sending, provider, calls>>
    /\ UNCHANGED <<connVars, msgVars, replyVars>>

\* _run, lines 90-94: the precondition, then _message_queue = asyncio.Queue()
RunEnter ==
    /\ cpc = "run"
    /\ IF auth_tokens
         THEN has_queue' = TRUE /\ cpc' = "setup"
         ELSE has_queue' = has_queue /\ cpc' = "dead"
    /\ UNCHANGED <<auth_tokens, c_is_running, event_loop, queue, ready, chat,
                   sending, provider, calls>>
    /\ UNCHANGED <<connVars, msgVars, replyVars>>

\* _run, lines 96-106: the session is set up and started; _sender_loop begins
SetupOk ==
    /\ cpc = "setup"
    /\ chat' = "up"
    /\ cpc' = "sender"
    /\ UNCHANGED <<auth_tokens, c_is_running, event_loop, has_queue, queue, ready,
                   sending, provider, calls>>
    /\ UNCHANGED <<connVars, msgVars, replyVars>>

\* _run, lines 96-100: one of the awaited set-up calls raised; the exception
\* leaves run_until_complete (line 114) and ends the thread
SetupFail ==
    /\ cpc = "setup"
    /\ cpc' = "dead"
    /\ UNCHANGED <<auth_tokens, c_is_running, event_loop, has_queue, queue, ready,
                   chat, sending, provider, calls>>
    /\ UNCHANGED <<connVars, msgVars, replyVars>>

\* _sender_loop, line 73: while _is_running
SenderTop ==
    /\ cpc = "sender"
    /\ cpc' = IF c_is_running THEN "waiting" ELSE "exited"
    /\ UNCHANGED <<auth_tokens, c_is_running, event_loop, has_queue, queue, ready,
                   chat, sending, provider, calls>>
    /\ UNCHANGED <<connVars, msgVars, replyVars>>

\* line 75: _message_queue.get() returned the oldest item
SenderGet ==
    /\ cpc = "waiting"
    /\ queue # <<>>
    /\ sending' = Head(queue)
    /\ queue' = Tail(queue)
    /\ cpc' = "sending"
    /\ UNCHANGED <<auth_tokens, c_is_running, event_loop, has_queue, ready, chat,
                   provider, calls>>
    /\ UNCHANGED <<connVars, msgVars, replyVars>>

\* lines 75-77: the queue stayed empty for 1 s; continue
SenderTimeout ==
    /\ cpc = "waiting"
    /\ queue = <<>>
    /\ cpc' = "sender"
    /\ UNCHANGED <<auth_tokens, c_is_running, event_loop, has_queue, queue, ready,
                   chat, sending, provider, calls>>
    /\ UNCHANGED <<connVars, msgVars, replyVars>>

\* the sender loop putting a message whose send raised back into the queue
SenderSendRetry(ok) ==
    /\ cpc = "sending"
    /\ provider' = IF chat # "none"
                     THEN Append(provider, [id |-> sending, ok |-> ok])
                     ELSE provider
    /\ queue' = IF ok THEN queue ELSE <<sending>> \o queue
    /\ sending' = 0
    /\ cpc' = "sender"
    /\ UNCHANGED <<auth_tokens, c_is_running, event_loop, has_queue, ready,
                   chat, calls>>
    /\ UNCHANGED <<connVars, msgVars, replyVars>>

\* lines 78-84: if _chat: await _chat.send_message(...) (ok: it returned,
\* otherwise it raised and line 83 logged it); task_done()
SenderSend(ok) ==
    /\ cpc = "sending"
    /\ provider' = IF chat # "none"
                     THEN Append(provider, [id |-> sending, ok |-> ok])
                     ELSE provider
    /\ sending' = 0
    /\ cpc' = "sender"
    /\ UNCHANGED <<auth_tokens, c_is_running, event_loop, has_queue, queue, ready,
                   chat, calls>>
    /\ UNCHANGED <<connVars, msgVars, replyVars>>

\* asyncio.Queue.put with the item placed in front
QueuePutFront(q, id) == <<id>> \o q

\* twitch_client.py:134  _message_queue.put(text) on the unbounded queue
QueuePut(q, id) == Append(q, id)

\* twitch_client.py:133  if _event_loop and _message_queue
Ready(el, hq) == el /\ hq

\* The loop runs the oldest scheduled put (line 134). It does so while the
\* coroutine of the thread is suspended in an await: the set-up calls (lines
\* 96-100), wait_for (line 75) or _chat.send_message (line 80).
LoopRunPut ==
    /\ ready # <<>>
    /\ cpc \in {"setup", "waiting", "sending"}
    /\ queue' = QueuePut(queue, Head(ready))
    /\ ready' = Tail(ready)
    /\ UNCHANGED <<auth_tokens, c_is_running, event_loop, has_queue, chat, cpc,
                   sending, provider, calls>>
    /\ UNCHANGED <<connVars, msgVars, replyVars>>

\* where the TwitchClient thread is: before _sender_loop ("early"), in it
\* ("loop"), or ended ("over": _run raised or _sender_loop returned)
Phase(pc) ==
    IF pc \in {"none", "target", "run", "setup"} THEN "early"
    ELSE IF pc \in {"sender", "waiting", "sending"} THEN "loop" ELSE "over"

\* twitch_client.send_message (lines 131-136) called with each text of txts
\* (none or one) by caller `by`: the put is scheduled on the loop, or the
\* "not ready" warning is printed.
SendMessages(txts, by) ==
    /\ calls' = calls \o [i \in 1..Len(txts) |->
                    [text |-> txts[i], by |-> by,
                     accepted |-> Ready(event_loop, has_queue), at |-> Phase(cpc)]]
    /\ ready' = IF Ready(event_loop, has_queue)
                  THEN ready \o [i \in 1..Len(txts) |-> Len(calls) + i]
                  ELSE ready

\* the texts the control plane sends
ApiTexts == { <<"h", "i">> }

\* main.py:82-86  POST /chat/send, served between startup and shutdown
ChatSend(text) ==
    /\ lpc = "serving"
    /\ Len(calls) + Len(inbox) < MaxSends
    /\ SendMessages(<<text>>, "api")
    /\ UNCHANGED <<auth_tokens, c_is_running, event_loop, has_queue, queue, chat,
                   cpc, sending, provider>>
    /\ UNCHANGED <<connVars, msgVars, replyVars>>

(***************************************************************************)
(* main._strip_sound_effects and main._handle_bot_reply                    *)
(***************************************************************************)

Letters == {"a", "c", "d", "e", "n", "o", "r", "s", "h", "i"}
Spaces  == {" ", "\t"}
Puncts  == {",", ".", "!", "?", ";", ":"}

\* the number of letters str starts with
RECURSIVE LetterRun(_)
LetterRun(str) ==
    IF str # <<>> /\ Head(str) \in Letters THEN 1 + LetterRun(Tail(str)) ELSE 0

\* the number of whitespace characters str starts with
RECURSIVE SpaceRun(_)
SpaceRun(str) ==
    IF str # <<>> /\ Head(str) \in Spaces THEN 1 + SpaceRun(Tail(str)) ELSE 0

Drop(str, n) == SubSeq(str, n + 1, Len(str))

\* main.py:20  re.sub(r"\*[A-Za-z]+\*", "", text): leftmost matches, left to right
RECURSIVE RemoveSfx(_)
RemoveSfx(str) ==
    IF str = <<>> THEN <<>>
    ELSE LET k == LetterRun(Tail(str))
         IN IF Head(str) = "*" /\ k >= 1 /\ Len(str) >= k + 2 /\ str[k + 2] = "*"
              THEN RemoveSfx(Drop(str, k + 2))
              ELSE <<Head(str)>> \o RemoveSfx(Tail(str))

\* main.py:21  re.sub(r"\s+", " ", text)
RECURSIVE CollapseSpaces(_)
CollapseSpaces(str) ==
    IF str = <<>> THEN <<>>
    ELSE IF Head(str) \in Spaces
           THEN <<" ">> \o CollapseSpaces(Drop(str, SpaceRun(str)))
           ELSE <<Head(str)>> \o CollapseSpaces(Tail(str))

\* main.py:21  .strip()
RECURSIVE StripRight(_)
StripRight(str) ==
    IF str # <<>> /\ str[Len(str)] \in Spaces
      THEN StripRight(SubSeq(str, 1, Len(str) - 1))
      ELSE str

Strip(str) == StripRight(Drop(str, SpaceRun(str)))

\* main.py:22  re.sub(r"\s+([,.!?;:])", r"\1", text)
RECURSIVE RemoveSpaceBeforePunct(_)
RemoveSpaceBeforePunct(str) ==
    IF str = <<>> THEN <<>>
    ELSE LET k == SpaceRun(str)
         IN IF k >= 1 /\ Len(str) > k /\ str[k + 1] \in Puncts
              THEN <<str[k + 1]>> \o RemoveSpaceBeforePunct(Drop(str, k + 1))
              ELSE <<Head(str)>> \o RemoveSpaceBeforePunct(Tail(str))

\* main.py:19-23  _strip_sound_effects
StripSoundEffects(text) ==
    RemoveSpaceBeforePunct(Strip(CollapseSpaces(RemoveSfx(text))))

\* main.py:30  "*censored*"
Censored == <<"*", "c", "e", "n", "s", "o", "r", "e", "d", "*">>

\* _handle_bot_reply cleaning whatever it is about to send
HandleBotReplyCleanAll(data) ==
    IF data.reply = <<>> THEN <<>>
    ELSE LET chat_msg == StripSoundEffects(IF data.is_censored THEN Censored ELSE data.reply)
         IN IF chat_msg # <<>> THEN <<chat_msg>> ELSE <<>>

\* _handle_bot_reply without the test of line 31
HandleBotReplyNoResultTest(data) ==
    IF data.reply = <<>> THEN <<>>
    ELSE <<IF data.is_censored THEN Censored ELSE StripSoundEffects(data.reply)>>

\* main.py:26-33  _handle_bot_reply: the texts it passes to send_message
HandleBotReply(data) ==
    IF data.reply = <<>> THEN <<>>
    ELSE LET chat_msg == IF data.is_censored THEN Censored
                         ELSE StripSoundEffects(data.reply)
         IN IF chat_msg # <<>> THEN <<chat_msg>> ELSE <<>>

InitReply ==
    /\ inbox = <<>>
    /\ handled = <<>>

\* the bot_reply payloads of the chat specification
SomeReplies == { [reply |-> <<"h", "i">>, is_censored |-> FALSE] }

\* The Director broadcasts bot_reply and the client receives it; the
\* connection loop runs from director_bridge.start() to stop().
DirectorBroadcast(data) ==
    /\ lpc \in {"cstart", "serving", "dstop"}
    /\ Len(calls) + Len(inbox) < MaxSends
    /\ inbox' = Append(inbox, data)
    /\ UNCHANGED handled
    /\ UNCHANGED <<connVars, msgVars, chatVars>>

\* director_bridge.on_bot_reply (lines 50-57) with the callback main.py:51
\* registered: main._handle_bot_reply (lines 26-33)
OnBotReply ==
    /\ inbox # <<>>
    /\ inbox' = Tail(inbox)
    /\ SendMessages(HandleBotReply(Head(inbox)), "reply")
    /\ handled' = Append(handled, [data |-> Head(inbox),
                                   from |-> Len(calls) + 1, to |-> Len(calls')])
    /\ UNCHANGED <<auth_tokens, c_is_running, event_loop, has_queue, queue, chat,
                   cpc, sending, provider>>
    /\ UNCHANGED <<connVars, msgVars>>

Next ==
    \/ \E ok \in BOOLEAN : Authenticate(ok)
    \/ TwitchStart
    \/ TwitchStop
    \/ DirectorStart
    \/ DirectorStop
    \/ RunEntry
    \/ LoopTop
    \/ IdleWake
    \/ ConnectCall
    \/ ConnectOk
    \/ ConnectFail
    \/ ConnectErr
    \/ Hold
    \/ HoldWake
    \/ BackoffIter
    \/ ErrSleepWake
    \/ ServerDrop
    \/ TransportReconnect

Init == InitConn /\ InitMsg /\ InitChat /\ InitReply

\* the connection loop and its lifecycle
Spec == Init /\ [][Next]_vars

\* The inbound chat path, while the Director accepts every connection attempt:
\* the channel goes up and down through sio.connect, a drop, the transport's
\* reconnection and stop().
NextEmit ==
    \/ \E ok \in BOOLEAN : Authenticate(ok)
    \/ TwitchStart
    \/ TwitchStop
    \/ ThreadTarget
    \/ RunEnter
    \/ SetupOk
    \/ DirectorStart
    \/ DirectorStop
    \/ RunEntry
    \/ LoopTop
    \/ IdleWake
    \/ ConnectCall
    \/ ConnectOk
    \/ Hold
    \/ HoldWake
    \/ ServerDrop
    \/ TransportReconnect
    \/ \E a \in Authors, t \in Texts : OnMessage(a, t)
    \/ \E raises \in BOOLEAN : HandlerEmit(raises)

SpecEmit == Init /\ [][NextEmit]_vars

\* The outbound chat path: the lifespan, the TwitchClient thread, the sender
\* loop and the two callers of send_message.
NextChat ==
    \/ \E ok \in BOOLEAN : Authenticate(ok)
    \/ DirectorStart
    \/ TwitchStart
    \/ TwitchStop
    \/ DirectorStop
    \/ ThreadTarget
    \/ RunEnter
    \/ SetupOk
    \/ SetupFail
    \/ SenderTop
    \/ SenderGet
    \/ SenderTimeout
    \/ \E ok \in BOOLEAN : SenderSend(ok)
    \/ LoopRunPut
    \/ \E t \in ApiTexts : ChatSend(t)
    \/ \E d \in SomeReplies : DirectorBroadcast(d)
    \/ OnBotReply

SpecChat == Init /\ [][NextChat]_vars

\* The chat connector used by a caller that calls start() on its own
\* authority, with or without stored tokens.
NextStart ==
    \/ \E ok \in BOOLEAN : Authenticate(ok)
    \/ DirectorStart
    \/ StartCall
    \/ TwitchStop
    \/ DirectorStop
    \/ ThreadTarget
    \/ RunEnter
    \/ SetupOk
    \/ SetupFail
    \/ SenderTop
    \/ SenderGet
    \/ SenderTimeout
    \/ \E ok \in BOOLEAN : SenderSend(ok)
    \/ LoopRunPut
    \/ \E t \in ApiTexts : ChatSend(t)
    \/ \E d \in SomeReplies : DirectorBroadcast(d)
    \/ OnBotReply

SpecStart == Init /\ [][NextStart]_vars

\* Startup and shutdown of both connectors, with the two stop() operations
\* called a second time after the shutdown sequence.
NextStop ==
    \/ \E ok \in BOOLEAN : Authenticate(ok)
    \/ DirectorStart
    \/ TwitchStart
    \/ TwitchStop
    \/ DirectorStop
    \/ TwitchStopAgain
    \/ DirectorStopAgain
    \/ ThreadTarget
    \/ RunEnter
    \/ SetupOk
    \/ SetupFail
    \/ SenderTop
    \/ SenderTimeout
    \/ RunEntry
    \/ LoopTop
    \/ ConnectCall
    \/ ConnectOk
    \/ Hold
    \/ HoldWake

SpecStop == Init /\ [][NextStop]_vars

\* The reply transform on one bot_reply, for every reply text of at most
\* MaxReplyLen characters: the payload has been received, and the chat
\* connector either has not been started yet (main.py:54-57) or is running
\* its sender loop.
ReplyChars == {"*", "a", " ", "\t", ","}

Strs(n) == UNION { [1..k -> ReplyChars] : k \in 0..n }

AllReplies == [reply : Strs(MaxReplyLen), is_censored : BOOLEAN]

\* the state in which one bot_reply drawn from `inputs` has been received
InitReplyFrom(inputs) ==
    /\ d_is_running = TRUE /\ dpc = "holdsleep" /\ failures = 0 /\ wait = 0 /\ left = 0
    /\ connected = TRUE /\ inst = 1 /\ reconnecting = FALSE
    /\ nConsec = 0 /\ connSince = TRUE /\ failAfterConn = FALSE
    /\ InitMsg
    /\ auth_tokens = TRUE
    /\ queue = <<>> /\ ready = <<>> /\ sending = 0 /\ provider = <<>> /\ calls = <<>>
    /\ \E running \in BOOLEAN :
          /\ lpc = IF running THEN "serving" ELSE "cstart"
          /\ c_is_running = running
          /\ event_loop = running
          /\ has_queue = running
          /\ chat = IF running THEN "up" ELSE "none"
          /\ cpc = IF running THEN "waiting" ELSE "none"
    /\ \E d \in inputs : inbox = <<d>>
    /\ handled = <<>>

InitReplySpec == InitReplyFrom(AllReplies)

NextReply == OnBotReply

SpecReply == InitReplySpec /\ [][NextReply]_vars

\* Text cleanup on its own: one uncensored bot_reply, for every reply text of
\* at most MaxCleanLen characters.
CleanReplies == [reply : Strs(MaxCleanLen), is_censored : {FALSE}]

InitClean == InitReplyFrom(CleanReplies)

SpecClean == InitClean /\ [][NextReply]_vars

(***************************************************************************)
(* Properties of the inbound chat path (SpecEmit)                          *)
(***************************************************************************)

\* the handler of message id has returned
Handled(id) == id < Len(arrived) \/ (id = Len(arrived) /\ hpc = 0)

\* the messages that reached the registered callback and whose handler returned
Forwarded == { id \in 1..Len(arrived) : cbCount[id] > 0 /\ Handled(id) }

Attempts(id, ev) == { i \in DOMAIN emitlog : emitlog[i].id = id /\ emitlog[i].ev = ev }

Frames(id, ev) == { i \in DOMAIN wire : wire[i].id = id /\ wire[i].ev = ev }

\* C1 (as claimed): every message handed to the handler has exactly one
\* 'twitch_message' frame and exactly one 'event' frame on the wire, both on
\* the same connection instance.
C1_ExactlyOneOfEachTransmitted ==
    \A id \in Forwarded :
        /\ Cardinality(Frames(id, "twitch_message")) = 1
        /\ Cardinality(Frames(id, "event")) = 1
        /\ \A i \in Frames(id, "twitch_message"), j \in Frames(id, "event") :
              wire[i].inst = wire[j].inst

\* C1 (amended): every message handed to the handler gets exactly one
\* 'twitch_message' emit attempt and then exactly one 'event' emit attempt;
\* an attempt is dropped exactly when the channel is not connected at that
\* moment, and it puts exactly one frame on the wire when sio.emit returns and
\* none otherwise. So a message has zero or one frame of each kind.
C1_OneAttemptOfEach ==
    /\ \A id \in Forwarded :
          /\ Cardinality(Attempts(id, "twitch_message")) = 1
          /\ Cardinality(Attempts(id, "event")) = 1
          /\ \A i \in Attempts(id, "twitch_message"), j \in Attempts(id, "event") : i < j
          /\ \A ev \in {"twitch_message", "event"} :
                Cardinality(Frames(id, ev)) =
                    Cardinality({ i \in Attempts(id, ev) : emitlog[i].out = "sent" })
    /\ \A i \in DOMAIN emitlog : (emitlog[i].out = "dropped") <=> ~emitlog[i].conn

\* C1 witness: a handled message whose RawMessage was transmitted and whose
\* ScoredEvent was dropped.
C1_Witness ==
    \E id \in Forwarded :
        /\ \E i \in Attempts(id, "twitch_message") : emitlog[i].out = "sent"
        /\ \E j \in Attempts(id, "event") : emitlog[j].out = "dropped"

\* C2: when both frames of a message are on the wire the 'twitch_message'
\* frame comes first, and no 'event' emit of a message is attempted before a
\* 'twitch_message' emit of that message has been attempted.
C2_RawBeforeScored ==
    /\ \A i, j \in DOMAIN wire :
          (wire[i].id = wire[j].id /\ wire[i].ev = "twitch_message" /\ wire[j].ev = "event")
              => i < j
    /\ \A j \in DOMAIN emitlog :
          emitlog[j].ev = "event" =>
              \E i \in 1..(j - 1) :
                  emitlog[i].id = emitlog[j].id /\ emitlog[i].ev = "twitch_message"

\* C2 witness: both frames of one message are on the wire.
C2_Witness ==
    \E id \in Forwarded : Frames(id, "twitch_message") # {} /\ Frames(id, "event") # {}

\* equal up to the case of the letters
SameNameIgnoringCase(a, b) ==
    /\ Len(a) = Len(b)
    /\ \A i \in 1..Len(a) : LowerChar(a[i]) = LowerChar(b[i])

\* C3: a message whose author equals the bot identity up to case never
\* reaches the callback and produces no emit; every other message reaches the
\* callback exactly once.
C3_SelfFiltered ==
    \A id \in 1..Len(arrived) :
        IF SameNameIgnoringCase(arrived[id], BOT_NAME)
          THEN /\ cbCount[id] = 0
               /\ \A i \in DOMAIN emitlog : emitlog[i].id # id
               /\ \A i \in DOMAIN wire : wire[i].id # id
          ELSE cbCount[id] = 1

\* C3 witness: a message whose author is the bot identity written in another
\* case was received, never reached the callback and made no emit.
C3_Witness ==
    \E id \in 1..Len(arrived) :
        /\ arrived[id] # BOT_NAME
        /\ SameNameIgnoringCase(arrived[id], BOT_NAME)
        /\ cbCount[id] = 0
        /\ Attempts(id, "twitch_message") = {} /\ Attempts(id, "event") = {}

\* C4: an emit made while the channel is disconnected is dropped without an
\* error and without a write, and the dropped event never appears on the wire,
\* whatever happens to the connection afterwards; the wire holds exactly the
\* emits that were sent.
C4_DropWhileDisconnected ==
    /\ \A i \in DOMAIN emitlog :
          ~emitlog[i].conn =>
              /\ emitlog[i].out = "dropped"
              /\ Frames(emitlog[i].id, emitlog[i].ev) = {}
    /\ Len(wire) = Cardinality({ i \in DOMAIN emitlog : emitlog[i].out = "sent" })

\* C4 witness: an emit was dropped and a later emit was sent on a connection
\* established after the drop.
C4_Witness ==
    \E i, j \in DOMAIN emitlog :
        /\ i < j
        /\ emitlog[i].out = "dropped"
        /\ emitlog[j].out = "sent"

(***************************************************************************)
(* Properties of the connection loop (Spec)                                *)
(***************************************************************************)

\* C7: the wait chosen after the N-th recognized failure of sio.connect in a
\* row is 5, 10, 15, 20, 25, 30 and then 30: min(5 * N, 30).
C7_BackoffSchedule ==
    dpc = "backoff" =>
        /\ nConsec >= 1
        /\ wait = (IF nConsec <= 5 THEN 5 * nConsec ELSE 30)

\* C7 witness: the seventh failure in a row, waiting 30 s.
C7_Witness == dpc = "backoff" /\ nConsec = 7 /\ wait = 30

\* C8 (as claimed): a recognized failure that follows a period in which the
\* channel was connected is followed by the 5 s wait.
C8_ResetAfterConnected ==
    (dpc = "backoff" /\ failAfterConn) => wait = 5

(***************************************************************************)
(* Properties of the outbound chat path (SpecChat)                         *)
(***************************************************************************)

\* the send_message calls that scheduled a put, in the order of the calls
AcceptedIds == SelectSeq([i \in 1..Len(calls) |-> i], LAMBDA i : calls[i].accepted)

\* C5: the texts handed to _chat.send_message are, in this order and each
\* once, the first texts that send_message accepted: the provider sees the
\* order of the send_message calls, whoever made them.
C5_Fifo ==
    /\ Len(provider) <= Len(AcceptedIds)
    /\ \A k \in 1..Len(provider) : provider[k].id = AcceptedIds[k]

\* C5 witness: three texts were handed to the provider, some sent by the
\* control plane and some by the reply callback.
C5_Witness ==
    /\ Len(provider) = 3
    /\ \E i, j \in 1..3 : /\ calls[provider[i].id].by = "api"
                          /\ calls[provider[j].id].by = "reply"

\* C6 (as claimed): a send_message call made before the sender loop has
\* started is rejected with the "not ready" warning.
C6_RejectedBeforeSenderLoop ==
    \A i \in DOMAIN calls : calls[i].at = "early" => ~calls[i].accepted

(***************************************************************************)
(* Properties of the reply transform (SpecReply)                           *)
(***************************************************************************)

\* the texts handled bot_reply h passed to send_message
TextsOf(h) == [i \in 1..(h.to - h.from + 1) |-> calls[h.from + i - 1].text]

AllSpaces(str) == \A i \in 1..Len(str) : str[i] \in Spaces

\* C9 (as claimed): a censored bot_reply, whatever its reply text (the empty
\* one included), makes exactly one send, of the placeholder.
C9_CensoredAlwaysPlaceholder ==
    \A i \in DOMAIN handled :
        handled[i].data.is_censored => TextsOf(handled[i]) = <<Censored>>

\* C9 (amended): a censored bot_reply whose reply text is not empty
\* (whitespace-only included) makes exactly one send_message call, of the
\* placeholder as it is; a censored bot_reply with the empty reply makes none.
C9_CensoredNonEmptyPlaceholder ==
    \A i \in DOMAIN handled :
        handled[i].data.is_censored =>
            TextsOf(handled[i]) =
                (IF handled[i].data.reply = <<>> THEN <<>> ELSE <<Censored>>)

\* C9 witness: a censored bot_reply with a whitespace-only reply text was
\* handled and the placeholder was sent.
C9_Witness ==
    \E i \in DOMAIN handled :
        /\ handled[i].data.is_censored
        /\ handled[i].data.reply # <<>>
        /\ AllSpaces(handled[i].data.reply)
        /\ TextsOf(handled[i]) = <<Censored>>

\* C10 (as claimed): a bot_reply whose reply text is empty, whitespace-only
\* or cleans to the empty string makes no send, censored or not.
C10_EmptyNeverSent ==
    \A i \in DOMAIN handled :
        (\/ handled[i].data.reply = <<>>
         \/ AllSpaces(handled[i].data.reply)
         \/ StripSoundEffects(handled[i].data.reply) = <<>>)
            => TextsOf(handled[i]) = <<>>

\* C10 (amended): a bot_reply with the empty reply text makes no send,
\* censored or not; an uncensored bot_reply whose reply text is
\* whitespace-only or cleans to the empty string makes no send.
C10_EmptyNotSent ==
    \A i \in DOMAIN handled :
        (\/ handled[i].data.reply = <<>>
         \/ /\ ~handled[i].data.is_censored
            /\ \/ AllSpaces(handled[i].data.reply)
               \/ StripSoundEffects(handled[i].data.reply) = <<>>)
            => TextsOf(handled[i]) = <<>>

\* C10 witness: an uncensored bot_reply whose text is not empty, is not
\* whitespace-only and cleans to the empty string was handled without a send.
C10_Witness ==
    \E i \in DOMAIN handled :
        /\ ~handled[i].data.is_censored
        /\ ~AllSpaces(handled[i].data.reply)
        /\ StripSoundEffects(handled[i].data.reply) = <<>>
        /\ TextsOf(handled[i]) = <<>>

(***************************************************************************)
(* Properties of the text cleanup (SpecClean)                              *)
(***************************************************************************)

\* str holds "*", one or more letters, "*" somewhere
HasSfx(str) ==
    \E i \in 1..Len(str) :
        str[i] = "*" /\ LetterRun(Drop(str, i)) >= 1
                     /\ Len(str) >= i + LetterRun(Drop(str, i)) + 1
                     /\ str[i + LetterRun(Drop(str, i)) + 1] = "*"

\* C11 (as claimed): the text the reply transform sends is already clean:
\* cleaning it again gives the same text, and it holds no asterisk-delimited
\* letter run.
C11_CleanupIdempotent ==
    \A i \in DOMAIN handled :
        \A k \in DOMAIN TextsOf(handled[i]) :
            /\ StripSoundEffects(TextsOf(handled[i])[k]) = TextsOf(handled[i])[k]
            /\ ~HasSfx(TextsOf(handled[i])[k])

(***************************************************************************)
(* Properties of the lifecycle of the chat connector (SpecChat)            *)
(***************************************************************************)

\* authenticate() has returned False
AuthFailed == lpc # "auth" /\ ~auth_tokens

\* C12: when authenticate() failed, the startup sequence goes on with the
\* event-channel connector started, the chat connector is never started (no
\* thread, no running flag, no loop, no queue), and every send_message call,
\* by the reply callback or by the control plane, is refused with the
\* "not ready" warning: nothing is scheduled, queued or handed to the provider.
C12_AuthFailedAllRejected ==
    AuthFailed =>
        /\ lpc \in {"cstart", "serving", "dstop", "stopped"} => dpc # "none"
        /\ cpc = "none" /\ ~c_is_running /\ ~event_loop /\ ~has_queue /\ chat = "none"
        /\ \A i \in DOMAIN calls : ~calls[i].accepted
        /\ ready = <<>> /\ queue = <<>> /\ sending = 0 /\ provider = <<>>

\* C12 witness: after a failed authenticate() the service is serving, the
\* event-channel connector is started, and a send of the reply callback and a
\* send of the control plane have both been refused.
C12_Witness ==
    /\ AuthFailed /\ lpc = "serving" /\ dpc # "none"
    /\ \E i, j \in DOMAIN calls :
          /\ calls[i].by = "reply" /\ ~calls[i].accepted
          /\ calls[j].by = "api" /\ ~calls[j].accepted

\* C13 (as claimed): start() called without stored tokens is refused at the
\* call: its caller does not go on past the call, the connector is not
\* running (no running flag, no thread), and no session, queue or sender loop
\* exists.
C13_StartRejectedWithoutAuth ==
    AuthFailed =>
        /\ lpc \notin {"serving", "dstop", "stopped"}
        /\ ~c_is_running /\ cpc = "none"
        /\ ~has_queue /\ chat = "none"

(***************************************************************************)
(* Properties of stopping the connection loop (Spec)                       *)
(***************************************************************************)

\* C14 (as claimed): once stop() of the event-channel connector has returned,
\* whatever the DirectorBridge thread had executed by then (its first line
\* included), the stop signal stays set, so the loop reads it at its next
\* test and exits: the flag never reads "running" after stop().
C14_StopSignalObserved ==
    lpc = "stopped" => ~d_is_running

\* C15 (as claimed): no stop() raises, whichever state its connector is in
\* (never started, running, already stopped), and whenever stop() of the
\* event-channel connector has been called, stop() of the chat connector had
\* been called before it.
C15_StopOrderNoError ==
    /\ lpc # "failed"
    /\ lpc \in {"dstop", "stopped", "dstop2", "stopped2"} => ~c_is_running

(***************************************************************************)
(* Properties of the error handling of the connection loop (Spec)          *)
(***************************************************************************)

\* the positions at which the DirectorBridge thread sleeps
Waiting == {"idle", "holdsleep", "backoff", "errsleep"}

\* C16: an exception of sio.connect other than ConnectionError leaves the
\* failure counter as it is and does not end the loop: from the 5 s sleep the
\* thread goes back to the top of the loop, and the counter always equals the
\* number of recognized failures since the last success of sio.connect, so
\* the wait after the next recognized failure is what it would have been
\* without the error.
C16_UnexpectedErrorKeepsCounter ==
    /\ [](failures = nConsec)
    /\ [](dpc = "backoff" => wait = Backoff(nConsec))
    /\ [][(dpc = "errsleep" \/ dpc' = "errsleep") =>
              /\ failures' = failures
              /\ dpc \in {"connecting", "errsleep"}
              /\ dpc' \in {"errsleep", "top"}]_vars

\* C16 witness: after two recognized failures in a row an unexpected error
\* was caught; the loop is alive in its 5 s sleep and the counter is still 2.
C16_Witness ==
    dpc = "errsleep" /\ d_is_running /\ failures = 2 /\ nConsec = 2 /\ wait = 10

\* C17 (as claimed): when stop() has cleared the flag and the thread is
\* asleep in one of its waiting states (idle poll, hold poll, backoff after a
\* failure, sleep after an unexpected error), the thread tests the flag again
\* at most 1 s later.
C17_StopRecheckedWithinPoll ==
    (lpc = "stopped" /\ ~d_is_running /\ dpc \in Waiting) => SleepMs(dpc) <= 1000

\* C19 (as claimed): once stop() of the event-channel connector has been
\* called and the connection loop has exited, the channel is not connected.
C19_DisconnectedAfterStop ==
    (lpc = "stopped" /\ dpc = "done") => ~connected

(***************************************************************************)
(* Properties of the sender loop (SpecChat)                                *)
(***************************************************************************)

\* the ids in a sequence of ids
IdsIn(q) == { q[i] : i \in DOMAIN q }

\* C18: a send that raised is isolated. The message is consumed: it is
\* neither in the queue nor about to be put there nor in the loop's hand, and
\* the provider is never given the same message twice. The loop is not
\* aborted: after every send, failed or not, it is back at its while test.
\* The messages sent after a failed one are the next accepted ones, in order.
C18_SendFailureIsolated ==
    /\ [](\A k \in DOMAIN provider :
             ~provider[k].ok =>
                 /\ provider[k].id \notin IdsIn(queue) \cup IdsIn(ready) \cup {sending}
                 /\ \A j \in DOMAIN provider :
                       j > k => /\ provider[j].id # provider[k].id
                                /\ j <= Len(AcceptedIds)
                                /\ provider[j].id = AcceptedIds[j])
    /\ [][(cpc = "sending" /\ cpc' # "sending") => cpc' = "sender"]_vars

\* C18 witness: a send raised, and the sender loop then sent the next
\* message successfully.
C18_Witness ==
    \E k \in DOMAIN provider :
        /\ k + 1 \in DOMAIN provider
        /\ ~provider[k].ok
        /\ provider[k + 1].ok
        /\ provider[k + 1].id = AcceptedIds[k + 1]

\* C20 (as claimed): no text is lost without a signal. A send_message call
\* that did not print "not ready" has its text handed to _chat.send_message
\* exactly once, or the text is still on its way to it: scheduled, queued or
\* in the hand of a TwitchClient thread that has not ended.
C20_NoSilentLoss ==
    \A i \in DOMAIN calls :
        calls[i].accepted =>
            LET given == { k \in DOMAIN provider : provider[k].id = i }
            IN \/ Cardinality(given) = 1
               \/ /\ given = {}
                  /\ i \in IdsIn(ready) \cup IdsIn(queue) \cup {sending}
                  /\ Phase(cpc) # "over"

====
